---- MODULE Spec2Model ----
(***************************************************************************)
(* A model of the CHS / NLSY harmonisation pipeline of assignment_2:       *)
(*   clean_chs_data.py   clean_chs_data, _to_pandas_missing                *)
(*   clean_nlsy_data.py  _harmonize_bpi_category, _categorical_to_binary,  *)
(*                       _get_subscale, _clean_one_wave, manage_nlsy_data  *)
(*   merge.py            merge_chs_nlsy                                    *)
(*                                                                         *)
(* A cell value is a record [k, n, d, s]:                                  *)
(*   k = "na"    a missing value (pd.NA / NaN)                             *)
(*   k = "int"   the integer n                                             *)
(*   k = "str"   the text s, a sequence of one-character strings           *)
(*   k = "cat"   a level of the ordered categorical, its label in s        *)
(*   k = "float" the float n / d, in lowest terms                          *)
(* A table is [names, cols, rows]: the index level names, the column names *)
(* in order (pandas allows a name twice) and the rows in order, each       *)
(* [key, vals] with one key entry per level and one value per column.      *)
(***************************************************************************)
EXTENDS Integers, Sequences, FiniteSets, TLC

VARIABLES
    chs, nlsy, merged,              \* merge_chs_nlsy: its inputs and its result
    raw, raw_before, chs_clean,     \* clean_chs_data: its input (and a copy taken before the call), its result
    column, harmonized,             \* _harmonize_bpi_category: its input and its result
    raw_nlsy, bpi_info, year,       \* _clean_one_wave: its inputs
    wave_out,                       \* _clean_one_wave: its result
    waves, pc, df_long              \* manage_nlsy_data: the waves so far, the loop position, the result

vars == <<chs, nlsy, merged, raw, raw_before, chs_clean, column, harmonized,
          raw_nlsy, bpi_info, year, wave_out, waves, pc, df_long>>

(***************************************************************************)
(* Values                                                                  *)
(***************************************************************************)
NA == [k |-> "na", n |-> 0, d |-> 1, s |-> <<>>]
IntV(i) == [k |-> "int", n |-> i, d |-> 1, s |-> <<>>]
StrV(cs) == [k |-> "str", n |-> 0, d |-> 1, s |-> cs]
CatV(cs) == [k |-> "cat", n |-> 0, d |-> 1, s |-> cs]
FloatV(a, b) == [k |-> "float", n |-> a, d |-> b, s |-> <<>>]

isna(v) == v.k = "na"

\* What a function returns: a table, or the exception it raised.
Returned(t) == [status |-> "ok", table |-> t]
EmptyTable == [names |-> <<>>, cols |-> <<>>, rows |-> <<>>]
Raised(e) == [status |-> e, table |-> EmptyTable]
NotRun == [status |-> "not run", table |-> EmptyTable]

(***************************************************************************)
(* Sequences and tables                                                    *)
(***************************************************************************)
Range(q) == {q[i] : i \in DOMAIN q}

RECURSIVE SelectIdx(_, _)
\* The subsequence of q at the positions of `keep`, in order.
SelectIdx(q, keep) ==
    IF q = <<>> THEN <<>>
    ELSE LET n == Len(q)
             front == SelectIdx(SubSeq(q, 1, n - 1), keep)
         IN IF n \in keep THEN Append(front, q[n]) ELSE front

RECURSIVE Flatten(_)
Flatten(qq) == IF qq = <<>> THEN <<>> ELSE Head(qq) \o Flatten(Tail(qq))

HasCol(t, c) == c \in Range(t.cols)

\* The position of the first column named c.
ColPos(t, c) == CHOOSE i \in DOMAIN t.cols : t.cols[i] = c /\ \A j \in 1..(i - 1) : t.cols[j] # c

Cell(t, r, c) == t.rows[r].vals[ColPos(t, c)]

\* All keys of a table.
Keys(t) == {t.rows[r].key : r \in DOMAIN t.rows}

\* RenameTagged with the two source tags exchanged.
RenameTaggedSwapped(t, names, suffix) ==
    [t EXCEPT !.cols = [i \in DOMAIN t.cols |->
                          IF t.cols[i] \in names
                          THEN t.cols[i] \o (IF suffix = "_chs" THEN "_nlsy" ELSE "_chs")
                          ELSE t.cols[i]]]

\* df.rename(columns={c: c + suffix for c in names})
RenameTagged(t, names, suffix) ==
    [t EXCEPT !.cols = [i \in DOMAIN t.cols |->
                          IF t.cols[i] \in names THEN t.cols[i] \o suffix ELSE t.cols[i]]]

(***************************************************************************)
(* merge.py                                                                *)
(***************************************************************************)
\* isinstance(df.index, pd.MultiIndex): the index has several levels.
IsMultiIndex(t) == Len(t.names) >= 2

\* left.join(right, how="inner") on the index.  Index.join joins on the full
\* key when the level names agree and refuses ("cannot join with no
\* overlapping index names") when no level name is shared; otherwise it joins
\* on the shared levels and appends the levels dropped from either side.
\* Two tables sharing a column name are refused ("columns overlap but no
\* suffix specified").  The result keeps the left order, and within one left
\* row the right order.
Join(left, right) ==
    LET shared == {i \in DOMAIN left.names : left.names[i] \in Range(right.names)}
        rpos(i) == CHOOSE j \in DOMAIN right.names : right.names[j] = left.names[i]
        ldrop == DOMAIN left.names \ shared
        rdrop == {j \in DOMAIN right.names : right.names[j] \notin Range(left.names)}
        lkey(l) == [i \in shared |-> l.key[i]]
        rkey(r) == [i \in shared |-> r.key[rpos(i)]]
        match(l) == {j \in DOMAIN right.rows : rkey(right.rows[j]) = lkey(l)}
        pair(l, r) == [key  |-> SelectIdx(l.key, shared) \o SelectIdx(l.key, ldrop)
                                  \o SelectIdx(r.key, rdrop),
                       vals |-> l.vals \o r.vals]
        rowsFor(l) == [j \in 1..Cardinality(match(l)) |->
                          pair(l, SelectIdx(right.rows, match(l))[j])]
    IN IF left.names # right.names /\ shared = {}
       THEN Raised("ValueError")
       ELSE IF Range(left.cols) \cap Range(right.cols) # {}
       THEN Raised("ValueError")
       ELSE Returned([names |-> SelectIdx(left.names, shared) \o SelectIdx(left.names, ldrop)
                                   \o SelectIdx(right.names, rdrop),
                      cols  |-> left.cols \o right.cols,
                      rows  |-> Flatten([i \in DOMAIN left.rows |-> rowsFor(left.rows[i])])])

AgeMin == 5
AgeMax == 13

\* AgeInRange with the lower bound excluded.
AgeInRangeStrict(v) == v.k = "int" /\ v.n > AgeMin /\ v.n <= AgeMax

\* (merged[age_col] >= 5) & (merged[age_col] <= 13): a comparison with a
\* missing value is not true, and .loc drops the row.
AgeInRange(v) == v.k = "int" /\ v.n >= AgeMin /\ v.n <= AgeMax

\* The age column merge_chs_nlsy filters on: "age", else "age_chs"; "" if neither.
AgeColumn(t) ==
    IF HasCol(t, "age") THEN "age"
    ELSE IF HasCol(t, "age_chs") THEN "age_chs"
    ELSE ""

\* merged.loc[(merged[age_col] >= 5) & (merged[age_col] <= 13)]
FilterAge(t, age_col) ==
    [t EXCEPT !.rows = SelectIdx(t.rows, {r \in DOMAIN t.rows : AgeInRange(Cell(t, r, age_col))})]

\* The columns both inputs have.
Overlap(c, n) == Range(c.cols) \cap Range(n.cols)

merge_chs_nlsy(c, n) ==
    IF ~IsMultiIndex(c) THEN Raised("ValueError")
    ELSE IF ~IsMultiIndex(n) THEN Raised("ValueError")
    ELSE LET overlap == Overlap(c, n)
             joined == Join(RenameTagged(c, overlap, "_chs"), RenameTagged(n, overlap, "_nlsy"))
         IN IF joined.status # "ok" THEN joined
            ELSE IF AgeColumn(joined.table) = "" THEN Raised("ValueError")
            ELSE Returned(FilterAge(joined.table, AgeColumn(joined.table)))

(***************************************************************************)
(* Inputs of merge_chs_nlsy                                                *)
(***************************************************************************)
\* How far below 5 and above 13 the ages of the inputs reach.
AgeSlack == 1

Ages == {NA} \cup {IntV(a) : a \in (AgeMin - AgeSlack)..AgeMin}
             \cup {IntV(a) : a \in AgeMax..(AgeMax + AgeSlack)}

\* The (childid, year) pairs of the inputs.
MergeKeys == {<<IntV(1), IntV(1990)>>, <<IntV(2), IntV(1990)>>, <<IntV(2), IntV(1992)>>}

\* The index of an input: the (childid, year) MultiIndex of the cleaned
\* tables, a single-level index, or a MultiIndex over other levels.
IndexCY == <<"childid", "year">>
IndexShapes == {IndexCY, <<"childid">>, <<"id", "wave">>}

ChsLayouts == {<<>>, <<"age">>, <<"momid">>, <<"momid", "age">>}
NlsyLayouts == {<<>>, <<"age">>, <<"momid">>, <<"age_nlsy">>, <<"momid", "age">>,
                <<"momid", "age_nlsy">>, <<"age", "age_nlsy">>, <<"momid", "age", "age_nlsy">>}

\* The sequences over S of at most two elements.
UpToTwo(S) == {<<>>} \cup {<<a>> : a \in S} \cup {<<a, b>> : a, b \in S}

\* The age the NLSY input reports for a child-year.
NlsyAge(key) ==
    IF key = <<IntV(1), IntV(1990)>> THEN IntV(AgeMin)
    ELSE IF key = <<IntV(2), IntV(1990)>> THEN IntV(AgeMax + 1)
    ELSE NA

\* A row of an input of the merge: its key cut to the index's levels, the
\* mother's identifier told apart by source (tag + childid), the age, and
\* for a column the input itself calls age_nlsy a value of its own.
MergeRow(names, cols, key, age, tag) ==
    [key  |-> SubSeq(key, 1, Len(names)),
     vals |-> [i \in DOMAIN cols |->
                 IF cols[i] = "momid" THEN IntV(tag + key[1].n)
                 ELSE IF cols[i] = "age_nlsy" THEN IntV(AgeMin + key[1].n)
                 ELSE age]]

ChsInputs(shapes, seeds) ==
    {[names |-> nm, cols |-> cl,
      rows |-> [i \in DOMAIN sd |-> MergeRow(nm, cl, sd[i][1], sd[i][2], 10)]] :
        nm \in shapes, cl \in ChsLayouts, sd \in seeds}

NlsyInputs(shapes, seeds) ==
    {[names |-> nm, cols |-> cl,
      rows |-> [i \in DOMAIN sd |-> MergeRow(nm, cl, sd[i], NlsyAge(sd[i]), 20)]] :
        nm \in shapes, cl \in NlsyLayouts, sd \in seeds}

OneRow(S) == {q \in UpToTwo(S) : Len(q) <= 1}

\* Two-row inputs under the (childid, year) index; every pair of index
\* shapes with inputs of at most one row.
InitMerge ==
    /\ \/ /\ chs \in ChsInputs({IndexCY}, UpToTwo(MergeKeys \X Ages))
          /\ nlsy \in NlsyInputs({IndexCY}, UpToTwo(MergeKeys))
       \/ /\ chs \in ChsInputs(IndexShapes, OneRow(MergeKeys \X Ages))
          /\ nlsy \in NlsyInputs(IndexShapes, OneRow(MergeKeys))
    /\ merged = NotRun
    /\ raw = EmptyTable /\ raw_before = EmptyTable /\ chs_clean = NotRun
    /\ column = <<>> /\ harmonized = <<>>
    /\ raw_nlsy = EmptyTable /\ bpi_info = <<>> /\ year = 0 /\ wave_out = NotRun
    /\ waves = <<>> /\ pc = "idle" /\ df_long = NotRun

Merge ==
    /\ merged = NotRun
    /\ merged' = merge_chs_nlsy(chs, nlsy)
    /\ UNCHANGED <<chs, nlsy, raw, raw_before, chs_clean, column, harmonized,
                   raw_nlsy, bpi_info, year, wave_out, waves, pc, df_long>>

NextMerge == Merge

SpecMerge == InitMerge /\ [][NextMerge]_vars

(***************************************************************************)
(* Claims about merge_chs_nlsy                                             *)
(***************************************************************************)
\* The age of a matched pair of input rows that the merge filters on: the
\* untagged age of the one input that has it, the CHS age when both have it.
LocatedAge(i, j) ==
    IF HasCol(chs, "age") THEN Cell(chs, i, "age") ELSE Cell(nlsy, j, "age")

MergedAgeName == IF HasCol(merged.table, "age") THEN "age" ELSE "age_chs"

\* C1: when the merge returns a table, every key of it is a key of the CHS
\* input and of the NLSY input, and the age of every returned row is present
\* and within 5..13; and the key of every pair of input rows with the same key
\* whose age is within 5..13 (5 and 13 included) is returned.
C1_MergeSubsetAgeRange ==
    merged.status = "ok" =>
      /\ \A r \in DOMAIN merged.table.rows :
           /\ merged.table.rows[r].key \in Keys(chs) \cap Keys(nlsy)
           /\ LET a == Cell(merged.table, r, MergedAgeName)
              IN a.k = "int" /\ 5 <= a.n /\ a.n <= 13
      /\ \A i \in DOMAIN chs.rows : \A j \in DOMAIN nlsy.rows :
           LET a == LocatedAge(i, j)
           IN (chs.rows[i].key = nlsy.rows[j].key /\ a.k = "int" /\ 5 <= a.n /\ a.n <= 13)
                 => chs.rows[i].key \in Keys(merged.table)

\* A merge that returned a row of age 5 and dropped a matching row of age 4.
C1_Witness ==
    /\ merged.status = "ok"
    /\ HasCol(chs, "age")
    /\ \E r \in DOMAIN merged.table.rows : Cell(merged.table, r, MergedAgeName) = IntV(5)
    /\ \E i \in DOMAIN chs.rows :
         /\ Cell(chs, i, "age") = IntV(4)
         /\ chs.rows[i].key \in Keys(nlsy)
         /\ chs.rows[i].key \notin Keys(merged.table)

\* The name a column of an input has in the merged table.
TaggedName(c, suffix) == IF c \in Range(chs.cols) \cap Range(nlsy.cols) THEN c \o suffix ELSE c

\* C2: the returned table holds every column of the CHS input and then every
\* column of the NLSY input, a name both inputs have as c_chs and c_nlsy and
\* never as c, and every returned row holds the values of one CHS row and one
\* NLSY row with its key: no column is overwritten or lost.
C2_CollisionSafe ==
    merged.status = "ok" =>
      LET m == merged.table
          nc == Len(chs.cols)
      IN /\ Len(m.cols) = nc + Len(nlsy.cols)
         /\ \A p \in DOMAIN chs.cols : m.cols[p] = TaggedName(chs.cols[p], "_chs")
         /\ \A q \in DOMAIN nlsy.cols : m.cols[nc + q] = TaggedName(nlsy.cols[q], "_nlsy")
         /\ \A c \in Range(chs.cols) \cap Range(nlsy.cols) : ~HasCol(m, c)
         /\ \A r \in DOMAIN m.rows :
              \E i \in DOMAIN chs.rows : \E j \in DOMAIN nlsy.rows :
                 /\ chs.rows[i].key = m.rows[r].key
                 /\ nlsy.rows[j].key = m.rows[r].key
                 /\ \A p \in DOMAIN chs.cols : m.rows[r].vals[p] = chs.rows[i].vals[p]
                 /\ \A q \in DOMAIN nlsy.cols : m.rows[r].vals[nc + q] = nlsy.rows[j].vals[q]

\* A merge of two inputs that both have momid and age, with a returned row.
C2_Witness ==
    /\ merged.status = "ok"
    /\ {"momid", "age"} \subseteq Range(chs.cols) \cap Range(nlsy.cols)
    /\ HasCol(merged.table, "momid_chs") /\ HasCol(merged.table, "momid_nlsy")
    /\ \E r \in DOMAIN merged.table.rows :
         Cell(merged.table, r, "momid_chs") # Cell(merged.table, r, "momid_nlsy")

\* C3: the merge raises ValueError whenever an input is not keyed by
\* (childid, year), a MultiIndex over other levels included.
C3_IndexChecked ==
    (merged # NotRun /\ (chs.names # IndexCY \/ nlsy.names # IndexCY))
       => merged.status = "ValueError"

\* The column names of the joined table.
JoinedCols ==
    {TaggedName(chs.cols[p], "_chs") : p \in DOMAIN chs.cols}
       \cup {TaggedName(nlsy.cols[q], "_nlsy") : q \in DOMAIN nlsy.cols}

\* C4: after the join the merge raises ValueError only when none of age,
\* age_chs and age_nlsy is a column of the joined table; with age_nlsy as the
\* only age column it succeeds.
C4_AgeLookup ==
    (merged # NotRun /\ chs.names = IndexCY /\ nlsy.names = IndexCY)
       => (merged.status = "ValueError"
             <=> JoinedCols \cap {"age", "age_chs", "age_nlsy"} = {})

(***************************************************************************)
(* Text: a str is a sequence of one-character strings                      *)
(***************************************************************************)
Lowercase == <<"a", "b", "c", "d", "e", "f", "g", "h", "i", "j", "k", "l", "m",
               "n", "o", "p", "q", "r", "s", "t", "u", "v", "w", "x", "y", "z">>
Uppercase == <<"A", "B", "C", "D", "E", "F", "G", "H", "I", "J", "K", "L", "M",
               "N", "O", "P", "Q", "R", "S", "T", "U", "V", "W", "X", "Y", "Z">>
Digits == <<"0", "1", "2", "3", "4", "5", "6", "7", "8", "9">>

\* Character-wise str.upper() and str.lower().
UpperChar(ch) ==
    IF ch \in Range(Lowercase)
    THEN Uppercase[CHOOSE i \in DOMAIN Lowercase : Lowercase[i] = ch]
    ELSE ch
LowerChar(ch) ==
    IF ch \in Range(Uppercase)
    THEN Lowercase[CHOOSE i \in DOMAIN Uppercase : Uppercase[i] = ch]
    ELSE ch
upper(cs) == [i \in DOMAIN cs |-> UpperChar(cs[i])]
lower(cs) == [i \in DOMAIN cs |-> LowerChar(cs[i])]

RECURSIVE lstrip(_)
lstrip(cs) == IF cs # <<>> /\ Head(cs) = " " THEN lstrip(Tail(cs)) ELSE cs
RECURSIVE rstrip(_)
rstrip(cs) == IF cs # <<>> /\ cs[Len(cs)] = " " THEN rstrip(SubSeq(cs, 1, Len(cs) - 1)) ELSE cs
\* str.strip()
strip(cs) == rstrip(lstrip(cs))

RECURSIVE NatStr(_)
NatStr(i) == IF i < 10 THEN <<Digits[i + 1]>> ELSE Append(NatStr(i \div 10), Digits[(i % 10) + 1])
\* str(v) of an int or a str.
str(v) == IF v.k = "int" THEN (IF v.n < 0 THEN <<"-">> \o NatStr(-v.n) ELSE NatStr(v.n)) ELSE v.s

(***************************************************************************)
(* clean_nlsy_data.py: the helpers                                         *)
(***************************************************************************)
MissingCode == -7

\* s.replace(-7, pd.NA), one value: the number -7 becomes missing (the text
\* "-7" is not the number).
nlsy_to_pandas_missing(v) == IF v.k = "int" /\ v.n = MissingCode THEN NA ELSE v

NOT_TRUE == <<"N", "O", "T", " ", "T", "R", "U", "E">>
SOMETIMES_TRUE == <<"S", "O", "M", "E", "T", "I", "M", "E", "S", " ", "T", "R", "U", "E">>
OFTEN_TRUE == <<"O", "F", "T", "E", "N", " ", "T", "R", "U", "E">>

\* The levels of cat_type, in order.
Categories == <<lower(NOT_TRUE), lower(SOMETIMES_TRUE), lower(OFTEN_TRUE)>>

\* _normalize_value, then astype(cat_type) of the one value.
normalize_value(v) ==
    IF isna(v) THEN NA
    ELSE LET t == upper(strip(str(v)))
         IN IF t = NOT_TRUE THEN CatV(Categories[1])
            ELSE IF t = SOMETIMES_TRUE THEN CatV(Categories[2])
            ELSE IF t = OFTEN_TRUE THEN CatV(Categories[3])
            ELSE NA

\* _harmonize_bpi_category over a column (a sequence of values).
harmonize_bpi_category(col) ==
    [i \in DOMAIN col |-> normalize_value(nlsy_to_pandas_missing(col[i]))]

(***************************************************************************)
(* Inputs of _harmonize_bpi_category                                       *)
(***************************************************************************)
\* The largest numeric answer code of the inputs.
MaxCode == 3

Labels == {NOT_TRUE, SOMETIMES_TRUE, OFTEN_TRUE}
\* A label as survey files spell it: upper, lower or capitalised, bare or padded.
Spellings(l) ==
    LET cased == {l, lower(l), <<Head(l)>> \o lower(Tail(l))}
    IN cased \cup {<<" ">> \o c : c \in cased} \cup {c \o <<" ", " ">> : c \in cased}
                \cup {<<" ">> \o c \o <<" ">> : c \in cased}
OtherTexts == {<<>>, <<" ">>, <<"0">>, <<"1">>, <<"2">>, <<"-", "7">>,
               <<"R", "E", "F", "U", "S", "E", "D">>, <<"T", "R", "U", "E">>,
               <<"N", "O", "T", " ", " ", "T", "R", "U", "E">>,
               <<"N", "O", "T", "T", "R", "U", "E">>}
RawAnswers ==
    {NA, IntV(MissingCode)} \cup {IntV(c) : c \in (-1)..MaxCode}
       \cup {StrV(t) : t \in (UNION {Spellings(l) : l \in Labels}) \cup OtherTexts}

InitHarm ==
    /\ column \in UpToTwo(RawAnswers)
    /\ harmonized = <<>> /\ pc = "idle"
    /\ chs = EmptyTable /\ nlsy = EmptyTable /\ merged = NotRun
    /\ raw = EmptyTable /\ raw_before = EmptyTable /\ chs_clean = NotRun
    /\ raw_nlsy = EmptyTable /\ bpi_info = <<>> /\ year = 0 /\ wave_out = NotRun
    /\ waves = <<>> /\ df_long = NotRun

Harmonize ==
    /\ pc = "idle"
    /\ harmonized' = harmonize_bpi_category(column)
    /\ pc' = "done"
    /\ UNCHANGED <<chs, nlsy, merged, raw, raw_before, chs_clean, column,
                   raw_nlsy, bpi_info, year, wave_out, waves, df_long>>

NextHarm == Harmonize

SpecHarm == InitHarm /\ [][NextHarm]_vars

\* C5: every raw value is harmonized to one of not true, sometimes true,
\* often true or missing; the codes 0, 1, 2 and the three labels (trimmed and
\* upper-cased) to their level, every other value to missing.
C5_Harmonized ==
    pc = "done" =>
      \A i \in DOMAIN column :
         LET v == column[i]
             level == IF v.k = "int" /\ v.n \in {0, 1, 2} THEN v.n + 1
                      ELSE IF v.k = "str" /\ upper(strip(v.s)) = NOT_TRUE THEN 1
                      ELSE IF v.k = "str" /\ upper(strip(v.s)) = SOMETIMES_TRUE THEN 2
                      ELSE IF v.k = "str" /\ upper(strip(v.s)) = OFTEN_TRUE THEN 3
                      ELSE 0
         IN harmonized[i] = IF level = 0 THEN NA ELSE CatV(Categories[level])

(***************************************************************************)
(* Table operations of the cleaners.  Column names are text (sequences of  *)
(* characters) here, since _get_subscale takes them apart.                 *)
(***************************************************************************)
\* df[c] = values: the column named c is replaced, or appended when new.
AssignCol(t, c, values) ==
    IF HasCol(t, c)
    THEN [t EXCEPT !.rows = [r \in DOMAIN t.rows |->
             [t.rows[r] EXCEPT !.vals = [i \in DOMAIN t.cols |->
                 IF t.cols[i] = c THEN values[r] ELSE t.rows[r].vals[i]]]]]
    ELSE [t EXCEPT !.cols = Append(t.cols, c),
                   !.rows = [r \in DOMAIN t.rows |->
                               [t.rows[r] EXCEPT !.vals = Append(t.rows[r].vals, values[r])]]]

\* df[c]: the values of the column named c.
Column(t, c) == [r \in DOMAIN t.rows |-> Cell(t, r, c)]

\* df[names]: the named columns, in the order of names.
SelectCols(t, names) ==
    [t EXCEPT !.cols = names,
              !.rows = [r \in DOMAIN t.rows |->
                          [t.rows[r] EXCEPT !.vals = [i \in DOMAIN names |-> Cell(t, r, names[i])]]]]

\* [x for x in q if x in S]
Filter(q, S) == SelectIdx(q, {i \in DOMAIN q : q[i] \in S})

\* df.rename(columns=dict(zip(from, to))): of two entries for one name the later wins.
RenameMap(t, from, to) ==
    [t EXCEPT !.cols = [i \in DOMAIN t.cols |->
        IF t.cols[i] \in Range(from)
        THEN to[CHOOSE j \in DOMAIN from :
                  from[j] = t.cols[i] /\ \A k \in (j + 1)..Len(from) : from[k] # t.cols[i]]
        ELSE t.cols[i]]]

\* The place of a character in the order Python compares text by.
Ascii == <<" ", "-">> \o Digits \o Uppercase \o <<"_">> \o Lowercase
Ord(ch) == CHOOSE i \in DOMAIN Ascii : Ascii[i] = ch

RECURSIVE TextLess(_, _)
\* a < b for two str.
TextLess(a, b) ==
    IF b = <<>> THEN FALSE
    ELSE IF a = <<>> THEN TRUE
    ELSE IF Head(a) # Head(b) THEN Ord(Head(a)) < Ord(Head(b))
    ELSE TextLess(Tail(a), Tail(b))

RECURSIVE sorted(_)
\* sorted(S) of a set of str.
sorted(S) ==
    IF S = {} THEN <<>>
    ELSE LET least == CHOOSE a \in S : \A b \in S \ {a} : TextLess(a, b)
         IN <<least>> \o sorted(S \ {least})

RECURSIVE GCD(_, _)
GCD(a, b) == IF b = 0 THEN a ELSE GCD(b, a % b)

RECURSIVE SumN(_)
SumN(q) == IF q = <<>> THEN 0 ELSE Head(q).n + SumN(Tail(q))

\* DataFrame.mean(axis=1) of one row of 0.0 / 1.0 / missing values: the mean
\* of the values present (skipna), missing when none is.
RowMean(q) ==
    LET present == Filter(q, {v \in Range(q) : ~isna(v)})
        total == SumN(present)
        g == GCD(Len(present), total)
    IN IF present = <<>> THEN NA ELSE FloatV(total \div g, Len(present) \div g)

\* astype("Int64") of one value: an integral number as that integer, a
\* missing value as missing; a fractional number cannot be cast.
CanInt64(v) == v.k \in {"na", "int"} \/ (v.k = "float" /\ v.d = 1)
Int64(v) == IF v.k = "float" THEN IntV(v.n) ELSE v

\* df.set_index(names): the named columns become the key, in that order.
SetIndex(t, names) ==
    LET rest == {i \in DOMAIN t.cols : t.cols[i] \notin Range(names)}
    IN [names |-> names,
        cols  |-> SelectIdx(t.cols, rest),
        rows  |-> [r \in DOMAIN t.rows |->
                     [key  |-> [i \in DOMAIN names |-> Cell(t, r, names[i])],
                      vals |-> SelectIdx(t.rows[r].vals, rest)]]]

\* left.join(right) of two tables over the same row index: the rows side by
\* side; a shared column name is refused ("columns overlap but no suffix
\* specified").
JoinAligned(left, right) ==
    IF Range(left.cols) \cap Range(right.cols) # {}
    THEN Raised("ValueError")
    ELSE Returned([left EXCEPT !.cols = left.cols \o right.cols,
                               !.rows = [r \in DOMAIN left.rows |->
                                   [left.rows[r] EXCEPT !.vals = left.rows[r].vals \o right.rows[r].vals]]])

(***************************************************************************)
(* clean_nlsy_data.py: _clean_one_wave                                     *)
(***************************************************************************)
CHILDID == <<"c", "h", "i", "l", "d", "i", "d">>
YEAR == <<"y", "e", "a", "r">>
MOMID == <<"m", "o", "m", "i", "d">>
BIRTH_ORDER == <<"b", "i", "r", "t", "h", "_", "o", "r", "d", "e", "r">>
INVARIANT_ == <<"i", "n", "v", "a", "r", "i", "a", "n", "t">>
BPI_ == <<"b", "p", "i", "_">>

\* _categorical_to_binary with a missing answer scored 0.
categorical_to_binary_zero(v) ==
    IF v.k = "cat" /\ v.s # Categories[1] THEN FloatV(1, 1) ELSE FloatV(0, 1)

\* _categorical_to_binary, one value: s.map(mapping) leaves missing missing.
categorical_to_binary(v) ==
    IF v.k # "cat" THEN NA
    ELSE IF v.s = Categories[1] THEN FloatV(0, 1)
    ELSE FloatV(1, 1)

RECURSIVE get_subscale(_)
\* readable_name.split("_", 1)[0]
get_subscale(name) ==
    IF name = <<>> \/ Head(name) = "_" THEN <<>>
    ELSE <<Head(name)>> \o get_subscale(Tail(name))

\* The rows of the metadata with bpi_info["survey_year"] == "invariant".
id_rows(info) == Filter(info, {m \in Range(info) : m.survey_year = StrV(INVARIANT_)})
\* The rows with bpi_info["survey_year"].astype(str) == str(year).
year_rows(info, y) == Filter(info, {m \in Range(info) : str(m.survey_year) = str(IntV(y))})

NlsyNames(rows) == [i \in DOMAIN rows |-> rows[i].nlsy_name]
ReadableNames(rows) == [i \in DOMAIN rows |-> rows[i].readable_name]

clean_one_wave(raw_t, y, info) ==
    LET id_raw == NlsyNames(id_rows(info))
        id_clean == ReadableNames(id_rows(info))
        item_raw == NlsyNames(year_rows(info, y))
        item_clean == ReadableNames(year_rows(info, y))
        \* 2. the year column
        df2 == AssignCol(raw_t, YEAR, [r \in DOMAIN raw_t.rows |-> IntV(y)])
        \* 3. the columns needed and present
        cols_needed == Filter(id_raw \o item_raw, Range(df2.cols))
        df3 == SelectCols(df2, cols_needed \o <<YEAR>>)
        \* 4. rename
        df4 == RenameMap(df3, id_raw \o item_raw, id_clean \o item_clean)
        \* 5. harmonize the items present
        item_cols_cat == Filter(item_clean, Range(df4.cols))
        df5 == [df4 EXCEPT !.rows = [r \in DOMAIN df4.rows |->
                   [df4.rows[r] EXCEPT !.vals = [i \in DOMAIN df4.cols |->
                       IF df4.cols[i] \in Range(item_cols_cat)
                       THEN harmonize_bpi_category(<<df4.rows[r].vals[i]>>)[1]
                       ELSE df4.rows[r].vals[i]]]]]
        \* 6. df_num[col], one row
        num(r, col) == categorical_to_binary(Cell(df5, r, col))
        \* 7. subscale scores
        subscales == sorted({get_subscale(c) : c \in Range(item_cols_cat)})
        sub_items(sc) == Filter(item_cols_cat, {c \in Range(item_cols_cat) : get_subscale(c) = sc})
        df_scores ==
            [names |-> df5.names,
             cols  |-> [k \in DOMAIN subscales |-> BPI_ \o subscales[k]],
             rows  |-> [r \in DOMAIN df5.rows |->
                          [key  |-> df5.rows[r].key,
                           vals |-> [k \in DOMAIN subscales |->
                               RowMean([j \in DOMAIN sub_items(subscales[k]) |->
                                           num(r, sub_items(subscales[k])[j])])]]]]
        \* 8. dtypes
        ints == {CHILDID, YEAR, MOMID, BIRTH_ORDER}
        castable == \A r \in DOMAIN df5.rows : \A i \in DOMAIN df5.cols :
                       df5.cols[i] \in ints => CanInt64(df5.rows[r].vals[i])
        df8 == [df5 EXCEPT !.rows = [r \in DOMAIN df5.rows |->
                   [df5.rows[r] EXCEPT !.vals = [i \in DOMAIN df5.cols |->
                       IF df5.cols[i] \in ints THEN Int64(df5.rows[r].vals[i])
                       ELSE df5.rows[r].vals[i]]]]]
        out == JoinAligned(df8, df_scores)
    IN IF ~HasCol(df5, CHILDID) THEN Raised("ValueError")
       ELSE IF ~castable THEN Raised("TypeError")
       ELSE IF out.status # "ok" THEN out
       ELSE Returned(SetIndex(out.table, <<CHILDID, YEAR>>))

(***************************************************************************)
(* Inputs of _clean_one_wave                                               *)
(***************************************************************************)
Meta(rawname, clean, when) == [nlsy_name |-> rawname, readable_name |-> clean, survey_year |-> StrV(when)]

ANXIETY_MOOD == <<"a", "n", "x", "i", "e", "t", "y", "_", "m", "o", "o", "d">>
ANXIETY_WORRY == <<"a", "n", "x", "i", "e", "t", "y", "_", "w", "o", "r", "r", "y">>
ANTISOCIAL_LIES == <<"a", "n", "t", "i", "s", "o", "c", "i", "a", "l", "_", "l", "i", "e", "s">>
BPI_ANXIETY == <<"b", "p", "i", "_", "a", "n", "x", "i", "e", "t", "y">>

\* The rows a variable-info table is drawn from: two identifiers, four items
\* of 1986 (two of one subscale, one of another, one whose own name is that of
\* a score column) and one item of 1988.
MetaRows ==
    << Meta(<<"C", "1">>, CHILDID, INVARIANT_),
       Meta(<<"C", "2">>, MOMID, INVARIANT_),
       Meta(<<"A", "8", "6">>, ANXIETY_MOOD, <<"1", "9", "8", "6">>),
       Meta(<<"W", "8", "6">>, ANXIETY_WORRY, <<"1", "9", "8", "6">>),
       Meta(<<"L", "8", "6">>, ANTISOCIAL_LIES, <<"1", "9", "8", "6">>),
       Meta(<<"B", "8", "6">>, BPI_ANXIETY, <<"1", "9", "8", "6">>),
       Meta(<<"A", "8", "8">>, ANXIETY_MOOD, <<"1", "9", "8", "8">>) >>
BpiInfos == {SelectIdx(MetaRows, K) : K \in SUBSET DOMAIN MetaRows}

\* The columns of a full raw extract: every variable of MetaRows and one more.
RawCols == NlsyNames(MetaRows) \o <<<<"S", "E", "X">>>>
RawLayouts ==
    {RawCols,
     Filter(RawCols, Range(RawCols) \ {<<"C", "1">>}),
     Filter(RawCols, Range(RawCols) \ {<<"W", "8", "6">>, <<"A", "8", "8">>}),
     Filter(RawCols, {<<"C", "1">>, <<"C", "2">>, <<"S", "E", "X">>})}

\* The number of children of a raw extract.
MaxChild == 2
Children == 1..MaxChild

\* The answers a raw item holds.
WaveAnswers == {NA, IntV(MissingCode), IntV(1), StrV(NOT_TRUE),
                StrV(<<" ">> \o lower(OFTEN_TRUE) \o <<" ">>),
                StrV(<<"S">> \o lower(Tail(SOMETIMES_TRUE)))}

\* A row of a raw extract: the child's and the mother's identifier, and two
\* answers spread over the items.
RawRow(cols, child, a, b) ==
    [key  |-> <<>>,
     vals |-> [i \in DOMAIN cols |->
                 IF cols[i] = <<"C", "1">> THEN IntV(child)
                 ELSE IF cols[i] = <<"C", "2">> THEN IntV(10 + child)
                 ELSE IF cols[i] \in {<<"A", "8", "6">>, <<"B", "8", "6">>} THEN a
                 ELSE IF cols[i] \in {<<"W", "8", "6">>, <<"L", "8", "6">>, <<"A", "8", "8">>} THEN b
                 ELSE IntV(0)]]

RawTables(layouts, seeds) ==
    {[names |-> <<>>, cols |-> cl,
      rows |-> [i \in DOMAIN sd |-> RawRow(cl, sd[i][1], sd[i][2], sd[i][3])]] :
        cl \in layouts, sd \in seeds}

\* The years a single wave is cleaned for: two with items and one without.
WaveInputYears == {1986, 1988, 1990}

\* Any variable-info table with a raw extract of at most one row; the full
\* variable-info tables with a full extract of two rows.
InitWave ==
    /\ \/ /\ bpi_info \in BpiInfos
          /\ raw_nlsy \in RawTables(RawLayouts, OneRow({1} \X WaveAnswers \X WaveAnswers))
       \/ /\ bpi_info \in {MetaRows, SelectIdx(MetaRows, DOMAIN MetaRows \ {6})}
          /\ raw_nlsy \in RawTables({RawCols},
                                   {q \in UpToTwo(Children \X WaveAnswers \X WaveAnswers) : Len(q) = 2})
    /\ year \in WaveInputYears
    /\ wave_out = NotRun
    /\ chs = EmptyTable /\ nlsy = EmptyTable /\ merged = NotRun
    /\ raw = EmptyTable /\ raw_before = EmptyTable /\ chs_clean = NotRun
    /\ column = <<>> /\ harmonized = <<>>
    /\ waves = <<>> /\ pc = "idle" /\ df_long = NotRun

CleanOneWave ==
    /\ wave_out = NotRun
    /\ wave_out' = clean_one_wave(raw_nlsy, year, bpi_info)
    /\ UNCHANGED <<chs, nlsy, merged, raw, raw_before, chs_clean, column, harmonized,
                   raw_nlsy, bpi_info, year, waves, pc, df_long>>

NextWave == CleanOneWave

SpecWave == InitWave /\ [][NextWave]_vars

(***************************************************************************)
(* Claims about _clean_one_wave                                            *)
(***************************************************************************)
\* The metadata rows the wave selects, and those whose raw name the extract has.
SelectedMeta ==
    {m \in Range(bpi_info) : m.survey_year \in {StrV(INVARIANT_), StrV(NatStr(year))}}
PresentMeta == {m \in SelectedMeta : m.nlsy_name \in Range(raw_nlsy.cols)}
PresentItems ==
    {m.readable_name : m \in {p \in PresentMeta : p.survey_year # StrV(INVARIANT_)}}

\* S is the first underscore-delimited token of the name c.
FirstToken(S, c) ==
    /\ Len(S) <= Len(c) /\ SubSeq(c, 1, Len(S)) = S
    /\ "_" \notin Range(S)
    /\ Len(c) = Len(S) \/ c[Len(S) + 1] = "_"
SubscalesOf(items) ==
    {S \in UNION {{SubSeq(c, 1, k) : k \in 0..Len(c)} : c \in items} :
        \E c \in items : FirstToken(S, c)}

\* C6: in a table _clean_one_wave returns, for every row and subscale S the
\* column bpi_S is (items of S harmonized to sometimes true or often true) /
\* (items of S not missing), within [0,1], and missing when every item of S
\* is missing in the row.
C6_SubscaleScore ==
    wave_out.status = "ok" =>
      \A S \in SubscalesOf(PresentItems) :
         /\ HasCol(wave_out.table, BPI_ \o S)
         /\ \A r \in DOMAIN wave_out.table.rows :
              LET its == {c \in PresentItems : FirstToken(S, c)}
                  given == {c \in its : ~isna(Cell(wave_out.table, r, c))}
                  true == {c \in its : Cell(wave_out.table, r, c)
                                          \in {CatV(lower(SOMETIMES_TRUE)), CatV(lower(OFTEN_TRUE))}}
                  score == Cell(wave_out.table, r, BPI_ \o S)
              IN IF given = {} THEN score = NA
                 ELSE /\ score.k = "float"
                      /\ score.n * Cardinality(given) = Cardinality(true) * score.d
                      /\ 0 <= score.n /\ score.n <= score.d /\ score.d > 0

\* The wave of 1986 with anxiety_mood often true and anxiety_worry -7: the
\* score is 1.0, the mean over the one item present.
C6_Witness ==
    /\ wave_out.status = "ok" /\ year = 1986
    /\ {ANXIETY_MOOD, ANXIETY_WORRY} \subseteq PresentItems
    /\ HasCol(raw_nlsy, <<"W", "8", "6">>)
    /\ \E r \in DOMAIN wave_out.table.rows :
         /\ Cell(raw_nlsy, r, <<"W", "8", "6">>) = IntV(-7)
         /\ Cell(wave_out.table, r, ANXIETY_MOOD) = CatV(lower(OFTEN_TRUE))
         /\ Cell(wave_out.table, r, ANXIETY_WORRY) = NA
         /\ Cell(wave_out.table, r, BPI_ \o <<"a", "n", "x", "i", "e", "t", "y">>) = FloatV(1, 1)

\* C8: _clean_one_wave raises ValueError exactly when no selected metadata
\* row present in the extract is named childid; otherwise it returns a table
\* keyed by (childid, year), the year that of the wave in every row, holding
\* the clean names of the selected rows present and the subscale scores.
C8_OnlyChildidRequired ==
    wave_out # NotRun =>
      LET haschild == CHILDID \in {m.readable_name : m \in PresentMeta}
      IN /\ wave_out.status = "ValueError" <=> ~haschild
         /\ haschild =>
              /\ wave_out.status = "ok"
              /\ wave_out.table.names = <<CHILDID, YEAR>>
              /\ \A r \in DOMAIN wave_out.table.rows : wave_out.table.rows[r].key[2] = IntV(year)
              /\ Len(wave_out.table.rows) = Len(raw_nlsy.rows)
              /\ Range(wave_out.table.cols) \cup {CHILDID}
                    = {m.readable_name : m \in PresentMeta}
                         \cup {BPI_ \o S : S \in SubscalesOf(PresentItems)}

(***************************************************************************)
(* clean_nlsy_data.py: manage_nlsy_data                                    *)
(***************************************************************************)
FirstYear == 1986
StopYear == 2012
YearStep == 2

\* range(a, b, st) with the stop included.
pyrange_inclusive(a, b, st) == [k \in 1..(((b - a) \div st) + 1) |-> a + (k - 1) * st]

\* range(a, b, st), st > 0, as a sequence.
pyrange(a, b, st) == [k \in 1..((b - a + st - 1) \div st) |-> a + (k - 1) * st]

\* range(1986, 2012, 2)
WaveYears == pyrange(FirstYear, StopYear, YearStep)

RECURSIVE UnionCols(_)
\* The columns of pd.concat(tables): every name, in the order of first appearance.
UnionCols(tables) ==
    IF tables = <<>> THEN <<>>
    ELSE LET front == UnionCols(SubSeq(tables, 1, Len(tables) - 1))
             last == tables[Len(tables)].cols
         IN front \o Filter(last, Range(last) \ Range(front))

\* pd.concat(tables): the rows of every table in turn, a column a table lacks missing.
concat(tables) ==
    LET cols == UnionCols(tables)
        widen(t) == [r \in DOMAIN t.rows |->
                       [key  |-> t.rows[r].key,
                        vals |-> [i \in DOMAIN cols |->
                                    IF HasCol(t, cols[i]) THEN Cell(t, r, cols[i]) ELSE NA]]]
    IN [names |-> tables[1].names,
        cols  |-> cols,
        rows  |-> Flatten([k \in DOMAIN tables |-> widen(tables[k])])]

\* The order of a level of the index: by number, a missing value last.
ValueLess(u, v) == ~isna(u) /\ (isna(v) \/ u.n < v.n)

RECURSIVE KeyLess(_, _)
KeyLess(a, b) ==
    IF a = <<>> THEN FALSE
    ELSE IF Head(a) # Head(b) THEN ValueLess(Head(a), Head(b))
    ELSE KeyLess(Tail(a), Tail(b))

RECURSIVE SortRows(_)
\* The rows in ascending order of their keys, rows of one key in their order.
SortRows(rows) ==
    IF rows = <<>> THEN <<>>
    ELSE LET n == Len(rows)
             front == SortRows(SubSeq(rows, 1, n - 1))
             before == {i \in DOMAIN front : ~KeyLess(rows[n].key, front[i].key)}
         IN SelectIdx(front, before) \o <<rows[n]>> \o SelectIdx(front, DOMAIN front \ before)

\* df.sort_index()
sort_index(t) == [t EXCEPT !.rows = SortRows(t.rows)]

\* The raw extracts and variable-info tables manage_nlsy_data is run on:
\* at most two rows, of one child or of two (or one child twice).
LongSeeds == UpToTwo(Children \X {<<StrV(OFTEN_TRUE), IntV(MissingCode)>>,
                                 <<StrV(NOT_TRUE), StrV(lower(SOMETIMES_TRUE))>>})
LongTables ==
    {[names |-> <<>>, cols |-> cl,
      rows |-> [i \in DOMAIN sd |-> RawRow(cl, sd[i][1], sd[i][2][1], sd[i][2][2])]] :
        cl \in RawLayouts, sd \in LongSeeds}

InitNlsy ==
    /\ raw_nlsy \in LongTables
    /\ bpi_info \in BpiInfos
    /\ year = WaveYears[1] /\ waves = <<>> /\ pc = "loop" /\ df_long = NotRun
    /\ wave_out = NotRun
    /\ chs = EmptyTable /\ nlsy = EmptyTable /\ merged = NotRun
    /\ raw = EmptyTable /\ raw_before = EmptyTable /\ chs_clean = NotRun
    /\ column = <<>> /\ harmonized = <<>>

\* One pass of the loop: the wave of `year` is cleaned and appended; an
\* exception of _clean_one_wave ends manage_nlsy_data.
WaveStep ==
    /\ pc = "loop" /\ Len(waves) < Len(WaveYears)
    /\ wave_out' = clean_one_wave(raw_nlsy, year, bpi_info)
    /\ IF wave_out'.status = "ok"
       THEN /\ waves' = Append(waves, wave_out'.table)
            /\ year' = IF Len(waves') < Len(WaveYears) THEN WaveYears[Len(waves') + 1] ELSE year
            /\ UNCHANGED <<pc, df_long>>
       ELSE /\ pc' = "raised"
            /\ df_long' = wave_out'
            /\ UNCHANGED <<waves, year>>
    /\ UNCHANGED <<chs, nlsy, merged, raw, raw_before, chs_clean, column, harmonized,
                   raw_nlsy, bpi_info>>

\* After the loop: pd.concat(waves).sort_index()
ConcatWaves ==
    /\ pc = "loop" /\ Len(waves) = Len(WaveYears)
    /\ df_long' = Returned(sort_index(concat(waves)))
    /\ pc' = "done"
    /\ UNCHANGED <<chs, nlsy, merged, raw, raw_before, chs_clean, column, harmonized,
                   raw_nlsy, bpi_info, year, wave_out, waves>>

NextNlsy == WaveStep \/ ConcatWaves

SpecNlsy == InitNlsy /\ [][NextNlsy]_vars

(***************************************************************************)
(* Claims about manage_nlsy_data                                           *)
(***************************************************************************)
\* The number of rows of table t whose key is key.
CountKey(t, key) == Cardinality({r \in DOMAIN t.rows : t.rows[r].key = key})

\* The clean names of the items of year y whose raw name the extract has.
ItemsOfYear(y) ==
    {m.readable_name : m \in {p \in Range(bpi_info) :
        p.survey_year = StrV(NatStr(y)) /\ p.nlsy_name \in Range(raw_nlsy.cols)}}
IdNames == {m.readable_name : m \in {p \in Range(bpi_info) : p.survey_year = StrV(INVARIANT_)}}

\* C10: manage_nlsy_data cleans the 13 waves 1986, 1988, ..., 2010 in that
\* order and returns one row per raw row and wave year, 13 times the raw rows,
\* ascending by (childid, year); a row of a year without items in the
\* extract holds no score (nothing but identifiers).
C10_AllWaves ==
    pc = "done" =>
      LET t == df_long.table
          child(i) == Cell(raw_nlsy, i, <<"C", "1">>)
      IN /\ df_long.status = "ok"
         /\ Len(waves) = 13
         /\ \A k \in 1..13 : \A r \in DOMAIN waves[k].rows :
               waves[k].rows[r].key[2] = IntV(1986 + 2 * (k - 1))
         /\ Len(t.rows) = 13 * Len(raw_nlsy.rows)
         /\ \A i \in DOMAIN raw_nlsy.rows : \A k \in 0..12 :
               CountKey(t, <<child(i), IntV(1986 + 2 * k)>>)
                  = Cardinality({j \in DOMAIN raw_nlsy.rows : child(j) = child(i)})
         /\ \A r1, r2 \in DOMAIN t.rows :
               r1 < r2 => \/ t.rows[r1].key[1].n < t.rows[r2].key[1].n
                          \/ /\ t.rows[r1].key[1].n = t.rows[r2].key[1].n
                             /\ t.rows[r1].key[2].n <= t.rows[r2].key[2].n
         /\ \A r \in DOMAIN t.rows :
               ItemsOfYear(t.rows[r].key[2].n) = {} =>
                  \A c \in Range(t.cols) \ IdNames : isna(Cell(t, r, c))

\* A run over two children that scored an item of 1986 and has a row of 2010
\* holding no score.
C10_Witness ==
    /\ pc = "done" /\ df_long.status = "ok"
    /\ Len(raw_nlsy.rows) = 2
    /\ HasCol(df_long.table, BPI_ \o <<"a", "n", "x", "i", "e", "t", "y">>)
    /\ \E r1, r2 \in DOMAIN df_long.table.rows :
         /\ df_long.table.rows[r1].key = <<IntV(2), IntV(1986)>>
         /\ Cell(df_long.table, r1, BPI_ \o <<"a", "n", "x", "i", "e", "t", "y">>) = FloatV(1, 1)
         /\ df_long.table.rows[r2].key = <<IntV(1), IntV(2010)>>
         /\ isna(Cell(df_long.table, r2, BPI_ \o <<"a", "n", "x", "i", "e", "t", "y">>))

\* C7: no (childid, year) pair appears in two rows of a table the cleaner
\* returns; a raw extract that would repeat a pair is refused.
C7_KeysUnique ==
    df_long.status = "ok" =>
      \A r1, r2 \in DOMAIN df_long.table.rows :
         df_long.table.rows[r1].key = df_long.table.rows[r2].key => r1 = r2

(***************************************************************************)
(* clean_chs_data.py                                                       *)
(***************************************************************************)
\* _to_pandas_missing with zero taken for a missing code too.
chs_to_pandas_missing_zero(v) == IF ~isna(v) /\ v.n <= 0 THEN NA ELSE v

\* _to_pandas_missing, one value: s.where(~(s < 0), other=pd.NA).  A missing
\* value is not below zero and stays as it is.
chs_to_pandas_missing(v) == IF ~isna(v) /\ v.n < 0 THEN NA ELSE v

\* bpi_map, in order.
BpiRaw == <<"bpiA", "bpiB", "bpiC", "bpiD", "bpiE">>
BpiClean == <<"bpi_antisocial_chs", "bpi_anxiety_chs", "bpi_headstrong_chs",
              "bpi_hyperactive_chs", "bpi_peer_chs">>

RECURSIVE CleanBpi(_, _)
\* The first k passes of the loop over bpi_map: df[clean_name] = _to_pandas_missing(df[raw_name])
CleanBpi(df, k) ==
    IF k = 0 THEN df
    ELSE LET before == CleanBpi(df, k - 1)
             col == Column(before, BpiRaw[k])
         IN AssignCol(before, BpiClean[k], [r \in DOMAIN col |-> chs_to_pandas_missing(col[r])])

\* df[c] = df[c].astype("Int64")
CastCol(df, c) ==
    LET col == Column(df, c) IN AssignCol(df, c, [r \in DOMAIN col |-> Int64(col[r])])
CanCast(df, c) == \A r \in DOMAIN df.rows : CanInt64(Cell(df, r, c))

\* df = raw.copy(): what the caller's table is after the call.  The function
\* works on the copy df, so the caller's table is as it was.
InputAfter(raw_t, df) == raw_t

\* clean_chs_data: [out, input], what it returns or raises and the caller's
\* table after the call.
clean_chs_data(raw_t) ==
    LET df1 == CleanBpi(raw_t, Len(BpiRaw))
        df2 == CastCol(df1, "momid")
        df3 == CastCol(df2, "age")
        df4 == CastCol(CastCol(df3, "childid"), "year")
        df5 == SetIndex(df4, <<"childid", "year">>)
        keep_cols == <<"momid", "age">> \o BpiClean
        fails(e, df) == [out |-> Raised(e), input |-> InputAfter(raw_t, df)]
    IN IF ~(Range(BpiRaw) \subseteq Range(raw_t.cols)) THEN fails("KeyError", raw_t)
       ELSE IF ~HasCol(df1, "momid") THEN fails("KeyError", df1)
       ELSE IF ~CanCast(df1, "momid") THEN fails("TypeError", df1)
       ELSE IF ~HasCol(df2, "age") THEN fails("KeyError", df2)
       ELSE IF ~CanCast(df2, "age") THEN fails("TypeError", df2)
       ELSE IF ~HasCol(df3, "childid") THEN fails("KeyError", df3)
       ELSE IF ~CanCast(df3, "childid") THEN fails("TypeError", df3)
       ELSE IF ~HasCol(df3, "year") THEN fails("KeyError", df3)
       ELSE IF ~CanCast(df3, "year") THEN fails("TypeError", df3)
       ELSE [out |-> Returned(SelectCols(df5, keep_cols)), input |-> InputAfter(raw_t, df5)]

(***************************************************************************)
(* Inputs of clean_chs_data                                                *)
(***************************************************************************)
\* The largest item code of the raw CHS table.
MaxItemCode == 1

ChsCodes == {NA, IntV(MissingCode)} \cup {IntV(c) : c \in (-1)..MaxItemCode}
ChsAges == {NA, IntV(5), FloatV(6, 1)}

ChsRawCols == <<"childid", "year", "momid", "age">> \o BpiRaw
ChsRawLayouts == {ChsRawCols, ChsRawCols \o <<"sex">>, Filter(ChsRawCols, Range(ChsRawCols) \ {"bpiE"})}

\* A row of the raw CHS table: two item codes spread over the five items.
ChsRawRow(cols, child, age, a, b) ==
    [key  |-> <<>>,
     vals |-> [i \in DOMAIN cols |->
                 IF cols[i] = "childid" THEN IntV(child)
                 ELSE IF cols[i] = "year" THEN IntV(1990)
                 ELSE IF cols[i] = "momid" THEN IntV(10 + child)
                 ELSE IF cols[i] = "age" THEN age
                 ELSE IF cols[i] \in {"bpiA", "bpiC", "bpiE"} THEN a
                 ELSE IF cols[i] \in {"bpiB", "bpiD"} THEN b
                 ELSE IntV(0)]]

ChsRawTables ==
    {[names |-> <<>>, cols |-> cl,
      rows |-> [i \in DOMAIN sd |-> ChsRawRow(cl, sd[i][1], sd[i][2], sd[i][3], sd[i][4])]] :
        cl \in ChsRawLayouts, sd \in UpToTwo({1, 2} \X ChsAges \X ChsCodes \X ChsCodes)}

InitChs ==
    /\ raw \in ChsRawTables
    /\ raw_before = raw
    /\ chs_clean = NotRun
    /\ chs = EmptyTable /\ nlsy = EmptyTable /\ merged = NotRun
    /\ column = <<>> /\ harmonized = <<>>
    /\ raw_nlsy = EmptyTable /\ bpi_info = <<>> /\ year = 0 /\ wave_out = NotRun
    /\ waves = <<>> /\ pc = "idle" /\ df_long = NotRun

CleanChs ==
    /\ chs_clean = NotRun
    /\ chs_clean' = clean_chs_data(raw).out
    /\ raw' = clean_chs_data(raw).input
    /\ UNCHANGED <<chs, nlsy, merged, raw_before, column, harmonized,
                   raw_nlsy, bpi_info, year, wave_out, waves, pc, df_long>>

NextChs == CleanChs

SpecChs == InitChs /\ [][NextChs]_vars

(***************************************************************************)
(* Claims about clean_chs_data                                             *)
(***************************************************************************)
\* Two values are the same number, or both missing.
SameNumber(u, v) ==
    IF isna(u) \/ isna(v) THEN isna(u) /\ isna(v) ELSE u.n * v.d = v.n * u.d

\* C9: clean_chs_data returns a table keyed by (childid, year) with exactly
\* the columns momid, age and the five renamed items, one row per input row;
\* an item below 0 becomes missing, a missing item stays missing, an item of 0
\* or more passes through; momid and age keep their values; the input table is
\* left as it was.
C9_ChsCleaned ==
    chs_clean.status = "ok" =>
      LET t == chs_clean.table
      IN /\ t.names = <<"childid", "year">>
         /\ t.cols = <<"momid", "age", "bpi_antisocial_chs", "bpi_anxiety_chs",
                       "bpi_headstrong_chs", "bpi_hyperactive_chs", "bpi_peer_chs">>
         /\ Len(t.rows) = Len(raw_before.rows)
         /\ \A r \in DOMAIN t.rows :
              /\ Len(t.rows[r].key) = 2
              /\ SameNumber(t.rows[r].key[1], Cell(raw_before, r, "childid"))
              /\ SameNumber(t.rows[r].key[2], Cell(raw_before, r, "year"))
              /\ SameNumber(Cell(t, r, "momid"), Cell(raw_before, r, "momid"))
              /\ SameNumber(Cell(t, r, "age"), Cell(raw_before, r, "age"))
              /\ \A k \in 1..5 :
                   LET v == Cell(raw_before, r, <<"bpiA", "bpiB", "bpiC", "bpiD", "bpiE">>[k])
                   IN Cell(t, r, t.cols[k + 2]) = IF isna(v) \/ v.n < 0 THEN NA ELSE v
         /\ raw = raw_before

\* A cleaned table of two rows, from a raw table with a column to drop, with
\* a code -7 made missing and a code 0 kept.
C9_Witness ==
    /\ chs_clean.status = "ok"
    /\ HasCol(raw_before, "sex")
    /\ Len(chs_clean.table.rows) = 2
    /\ \E r \in DOMAIN raw_before.rows :
         /\ Cell(raw_before, r, "bpiA") = IntV(-7)
         /\ Cell(chs_clean.table, r, "bpi_antisocial_chs") = NA
         /\ Cell(raw_before, r, "bpiB") = IntV(0)
         /\ Cell(chs_clean.table, r, "bpi_anxiety_chs") = IntV(0)
         /\ Cell(raw_before, r, "age").k = "float"

====
